---------------------------- MODULE Spec2Model ----------------------------
(***************************************************************************)
(* Model of src/Ev1_modeling.py: the Streamlit script that schedules the   *)
(* charging of a school-bus fleet.                                         *)
(*                                                                         *)
(* Two specifications share the variables:                                 *)
(*   Spec     calculate_charging_schedule (lines 61-80) called directly    *)
(*            with arguments drawn from bounded sets, one action per loop  *)
(*            head / loop body of the function;                            *)
(*   SpecApp  the whole script: the sidebar widgets that edit the session  *)
(*            state (lines 10-50), the top-level code that builds the      *)
(*            arguments and calls the function (lines 105-125) and the     *)
(*            report that follows (lines 143-161).                         *)
(*                                                                         *)
(* Numbers.  The script computes with float64.  The model uses fixed-point *)
(* integers with two decimals: a quantity of x kW is the integer x*Scale,  *)
(* a charging rate r in [0.1, 1.0] (slider step 0.01) and an initial       *)
(* charge percentage are the integer numbers of hundredths.  Every product  *)
(* the script forms is then exact, because capacities entered in the       *)
(* widgets are whole kW.                                                   *)
(*                                                                         *)
(* Indices.  Python indexes from 0, TLA+ sequences from 1: vehicle i of    *)
(* the script is vehicle i+1 here, charging_rates[hour] is                 *)
(* charging_rates[hour + 1].  The loop variable hour keeps Python's value. *)
(***************************************************************************)
EXTENDS Integers, Sequences, FiniteSets

VARIABLES
    bus_configurations,      \* st.session_state.bus_configurations: <<num, capacity>> groups
    charger_configurations,  \* st.session_state.charger_configurations / the function's argument
    charging_window,         \* slider value / the function's argument
    charging_rates,          \* one rate per hour, in hundredths
    bus_capacities,          \* module global of line 105 / the function's argument
    num_buses,               \* module global of line 108
    initial_charge_levels,   \* result of get_initial_charge_levels / the function's argument
    charging_needs,          \* local of calculate_charging_schedule
    charging_schedule,       \* local of calculate_charging_schedule, then module global
    hour,                    \* loop variable of line 65
    cls,                     \* position of the loop of line 68 in charger_configurations
    pos,                     \* position of the loop of line 71 in sorted_indices
    chargers_allocated,      \* local of line 69
    sorted_indices,          \* local of line 66
    pc,                      \* the statement the script is about to run
    exception,               \* the exception that ended the run, "" when none
    total_charge_required,   \* line 143
    charge_delivered,        \* line 146
    total_cost,              \* line 152, a fraction [num, den]
    average_cost_per_kw,     \* line 157
    warning,                 \* whether st.warning of line 161 was shown
    needs_at_hour_start,     \* history: charging_needs when line 66 ran
    needs_at_class_start,    \* history: charging_needs when each class of this hour began
    delivered_by             \* history: energy each class gave each vehicle this hour

vars == <<bus_configurations, charger_configurations, charging_window,
          charging_rates, bus_capacities, num_buses, initial_charge_levels,
          charging_needs, charging_schedule, hour, cls, pos,
          chargers_allocated, sorted_indices, pc, exception,
          total_charge_required, charge_delivered, total_cost,
          average_cost_per_kw, warning, needs_at_hour_start,
          needs_at_class_start, delivered_by>>

sessionVars == <<bus_configurations, charger_configurations, charging_window,
                 charging_rates>>

argVars == <<bus_capacities, num_buses, initial_charge_levels>>

reportVars == <<total_charge_required, charge_delivered, total_cost,
                average_cost_per_kw, warning>>

loopVars == <<hour, cls, pos, chargers_allocated, sorted_indices>>

historyVars == <<needs_at_hour_start, needs_at_class_start, delivered_by>>

---------------------------------------------------------------------------
(* Bounds of the model and the values the inputs are drawn from.           *)

Scale == 100

MaxVehicles == 3

MaxHours == 2

\* <<capacity, initial charge>> of one vehicle handed to the function:
\* deficits of 100, 50 and 10 kW.  Deficits of 0 arise during the run, when
\* a vehicle has been filled.
VehicleInputs == {<<10000, 0>>, <<10000, 5000>>, <<10000, 9000>>}

\* Charger configurations handed to the function: lists of <<count, unit
\* capacity>>.  A class with a count of 0 is a configuration the function's
\* contract excludes.
ChargerInputs ==
    { << >>,
      << <<1, 6000>> >>,
      << <<3, 6000>> >>,
      << <<0, 6000>> >>,
      << <<1, 6000>>, <<2, 3000>> >> }

RateInputs == {50, 100}

BoundedSeq(S, n) == UNION {[1..k -> S] : k \in 0..n}

---------------------------------------------------------------------------
(* Helpers: the numpy and builtin operations the script uses.              *)

Min(a, b) == IF a <= b THEN a ELSE b

RECURSIVE SumSeq(_)
SumSeq(s) == IF s = << >> THEN 0 ELSE Head(s) + SumSeq(Tail(s))

\* numpy broadcasting of two one-dimensional shapes.
Broadcastable(m, n) == m = n \/ m = 1 \/ n = 1

BroadcastLen(m, n) == IF m = 1 THEN n ELSE m

\* np.array(a) - b for one-dimensional a and b of broadcastable shapes.
np_subtract(a, b) ==
    [i \in 1..BroadcastLen(Len(a), Len(b)) |->
        (IF Len(a) = 1 THEN a[1] ELSE a[i]) - (IF Len(b) = 1 THEN b[1] ELSE b[i])]

\* np.zeros((rows, cols))
np_zeros(rows, cols) == [r \in 1..rows |-> [h \in 1..cols |-> 0]]

\* np.sum of a two-dimensional array
RECURSIVE SumRows(_)
SumRows(m) == IF m = << >> THEN 0 ELSE SumSeq(Head(m)) + SumRows(Tail(m))

Orders(n) == {p \in [1..n -> 1..n] : \A i, j \in 1..n : i # j => p[i] # p[j]}

\* The orders that put the keys in descending order.
np_argsort_ascending(keys) ==
    {p \in Orders(Len(keys)) :
        \A i, j \in 1..Len(keys) : i < j => keys[p[i]] >= keys[p[j]]}

\* np.argsort(-charging_needs), line 66: the index orders that put the needs
\* in descending order.  argsort's default kind is 'quicksort', which numpy
\* documents as not stable: the relative order of equal needs is whatever
\* the build's sort produces, so every order of the ties is an outcome.
np_argsort(keys) ==
    {p \in Orders(Len(keys)) :
        \A i, j \in 1..Len(keys) : i < j => keys[p[i]] <= keys[p[j]]}

Negate(s) == [i \in 1..Len(s) |-> 0 - s[i]]

\* charger_capacity * charging_rates[hour], line 75
Throughput(charger_capacity, rate) == (charger_capacity * rate) \div Scale

\* Variant of line 75 without the cap at the vehicle's deficit.
ChargeIgnoringDeficit(need, charger_capacity, rate) ==
    Throughput(charger_capacity, rate)

\* Variant of line 75 without the hour's rate.
ChargeIgnoringRate(need, charger_capacity, rate) ==
    Min(need, charger_capacity)

\* line 75: min(charging_needs[idx], charger_capacity * charging_rates[hour])
ChargeThisHour(need, charger_capacity, rate) ==
    Min(need, Throughput(charger_capacity, rate))

\* Variant of line 72 with > for >=.
SkipOffByOne(allocated, num_chargers, need) ==
    allocated > num_chargers \/ need <= 0

\* Variant of line 72 without the test of the deficit.
SkipOnlyWhenFull(allocated, num_chargers, need) ==
    allocated >= num_chargers

\* line 72: the condition under which the loop body continues
SkipVehicle(allocated, num_chargers, need) ==
    allocated >= num_chargers \/ need <= 0

\* Variant of line 66 that sorts charging_needs, not -charging_needs.
SortAscending(needs) == np_argsort_ascending(Negate(needs))

\* line 66
SortedIndices(needs) == np_argsort(Negate(needs))

---------------------------------------------------------------------------
(* calculate_charging_schedule, lines 61-80.                               *)

Raise(e) ==
    /\ pc' = "raised"
    /\ exception' = e

\* lines 62-63
Enter ==
    /\ pc = "enter"
    /\ IF Broadcastable(Len(bus_capacities), Len(initial_charge_levels))
       THEN /\ charging_needs' = np_subtract(bus_capacities, initial_charge_levels)
            /\ charging_schedule' = np_zeros(Len(bus_capacities), charging_window)
            /\ hour' = 0
            /\ pc' = "for_hour"
            /\ UNCHANGED exception
       ELSE /\ Raise("ValueError")
            /\ UNCHANGED <<charging_needs, charging_schedule, hour>>
    /\ UNCHANGED <<sessionVars, argVars, reportVars, historyVars,
                   cls, pos, chargers_allocated, sorted_indices>>

\* lines 65-66: the head of the loop over the hours and the sort
ForHour ==
    /\ pc = "for_hour"
    /\ IF hour < charging_window
       THEN /\ \E order \in SortedIndices(charging_needs) : sorted_indices' = order
            /\ cls' = 1
            /\ pc' = "for_class"
            /\ needs_at_hour_start' = charging_needs
            /\ needs_at_class_start' = << >>
            /\ delivered_by' = [c \in 1..Len(charger_configurations) |->
                                  [v \in 1..Len(charging_needs) |-> 0]]
       ELSE /\ pc' = "return"
            /\ UNCHANGED <<sorted_indices, cls, historyVars>>
    /\ UNCHANGED <<sessionVars, argVars, reportVars, charging_needs,
                   charging_schedule, hour, pos, chargers_allocated, exception>>

\* lines 68-69: the head of the loop over the charger classes
ForClass ==
    /\ pc = "for_class"
    /\ IF cls <= Len(charger_configurations)
       THEN /\ chargers_allocated' = 0
            /\ pos' = 1
            /\ pc' = "for_idx"
            /\ needs_at_class_start' = Append(needs_at_class_start, charging_needs)
            /\ UNCHANGED hour
       ELSE /\ hour' = hour + 1
            /\ pc' = "for_hour"
            /\ UNCHANGED <<chargers_allocated, pos, needs_at_class_start>>
    /\ UNCHANGED <<sessionVars, argVars, reportVars, charging_needs,
                   charging_schedule, cls, sorted_indices, exception,
                   needs_at_hour_start, delivered_by>>

\* lines 71-78: one iteration of the loop over sorted_indices
ForIdx ==
    /\ pc = "for_idx"
    /\ IF pos > Len(sorted_indices)
       THEN /\ cls' = cls + 1
            /\ pc' = "for_class"
            /\ UNCHANGED <<pos, chargers_allocated, charging_needs,
                           charging_schedule, exception, delivered_by>>
       ELSE LET idx == sorted_indices[pos]
                num_chargers == charger_configurations[cls][1]
                charger_capacity == charger_configurations[cls][2]
            IN  IF SkipVehicle(chargers_allocated, num_chargers, charging_needs[idx])
                THEN /\ pos' = pos + 1
                     /\ UNCHANGED <<cls, pc, chargers_allocated, charging_needs,
                                    charging_schedule, exception, delivered_by>>
                ELSE IF hour + 1 > Len(charging_rates) \/ idx > Len(charging_schedule)
                THEN /\ Raise("IndexError")
                     /\ UNCHANGED <<cls, pos, chargers_allocated, charging_needs,
                                    charging_schedule, delivered_by>>
                ELSE LET charge_this_hour ==
                             ChargeThisHour(charging_needs[idx], charger_capacity,
                                            charging_rates[hour + 1])
                     IN  /\ charging_schedule' =
                                [charging_schedule EXCEPT ![idx][hour + 1] = @ + charge_this_hour]
                         /\ charging_needs' =
                                [charging_needs EXCEPT ![idx] = @ - charge_this_hour]
                         /\ chargers_allocated' = chargers_allocated + 1
                         /\ delivered_by' =
                                [delivered_by EXCEPT ![cls][idx] = @ + charge_this_hour]
                         /\ pos' = pos + 1
                         /\ UNCHANGED <<cls, pc, exception>>
    /\ UNCHANGED <<sessionVars, argVars, reportVars, hour, sorted_indices,
                   needs_at_hour_start, needs_at_class_start>>

\* line 80
Return ==
    /\ pc = "return"
    /\ pc' = "returned"
    /\ UNCHANGED <<sessionVars, argVars, reportVars, loopVars, historyVars,
                   charging_needs, charging_schedule, exception>>

\* The state before any statement of a run has executed.
FreshRun ==
    /\ charging_needs = << >>
    /\ charging_schedule = << >>
    /\ hour = 0
    /\ cls = 0
    /\ pos = 0
    /\ chargers_allocated = 0
    /\ sorted_indices = << >>
    /\ exception = ""
    /\ total_charge_required = 0
    /\ charge_delivered = 0
    /\ total_cost = [num |-> 0, den |-> 1]
    /\ average_cost_per_kw = [kind |-> "unset"]
    /\ warning = FALSE
    /\ needs_at_hour_start = << >>
    /\ needs_at_class_start = << >>
    /\ delivered_by = << >>

\* A direct call of calculate_charging_schedule.
Init ==
    /\ bus_configurations = << >>
    /\ \E fleet \in BoundedSeq(VehicleInputs, MaxVehicles) :
          /\ bus_capacities = [i \in 1..Len(fleet) |-> fleet[i][1]]
          /\ initial_charge_levels = [i \in 1..Len(fleet) |-> fleet[i][2]]
          /\ num_buses = Len(fleet)
    /\ charger_configurations \in ChargerInputs
    /\ charging_rates \in BoundedSeq(RateInputs, MaxHours)
    /\ charging_window = Len(charging_rates)
    /\ pc = "enter"
    /\ FreshRun

Next == Enter \/ ForHour \/ ForClass \/ ForIdx \/ Return

Spec == Init /\ [][Next]_vars

---------------------------------------------------------------------------
(* The script around the function: widgets, arguments, report.             *)

MaxGroups == 2

\* The window slider's default, line 49, and the rate sliders', line 50.
DefaultWindow == 8

DefaultRate == 50

\* What "Add Buses" can append: <<Number of Buses, Bus Capacity>>, lines 13-14.
BusInputs == {<<1, 5000>>, <<2, 5000>>, <<1, 15500>>}

\* What "Add Charger" can append: <<Number of Chargers, Charger Capacity>>,
\* lines 33-34.
ChargerWidgetInputs == {<<1, 5000>>, <<2, 1000>>}

\* Values np.random.uniform(15, 40) is sampled at, line 56.
PercentInputs == {15, 40}

RemoveAt(s, i) == [j \in 1..(Len(s) - 1) |-> IF j < i THEN s[j] ELSE s[j + 1]]

\* line 105: one entry per configured group, capacity * num
BusCapacities(configs) == [g \in 1..Len(configs) |-> configs[g][2] * configs[g][1]]

\* line 108
NumBuses(configs) == SumSeq([g \in 1..Len(configs) |-> configs[g][1]])

\* lines 56-57: percentages / 100 * np.array(bus_capacities), broadcast
get_initial_charge_levels(percentages, capacities) ==
    [i \in 1..BroadcastLen(Len(percentages), Len(capacities)) |->
        ((IF Len(percentages) = 1 THEN percentages[1] ELSE percentages[i])
            * (IF Len(capacities) = 1 THEN capacities[1] ELSE capacities[i])) \div Scale]

\* lines 138-140: np.sum(charging_schedule) * np.mean(charging_rates)
calculate_total_cost(schedule, rates) ==
    [num |-> SumRows(schedule) * SumSeq(rates), den |-> Scale * Len(rates)]

\* float64 division, line 157: 0/0 is nan and x/0 is inf, with a
\* RuntimeWarning and no exception.
Divide(cost, delivered) ==
    IF delivered = 0
    THEN IF cost.num = 0 THEN [kind |-> "nan"] ELSE [kind |-> "inf"]
    ELSE [kind |-> "value", num |-> cost.num, den |-> cost.den * delivered]

\* A widget interaction reruns the script from its first line in a new
\* module namespace; st.session_state alone survives.
Rerun ==
    /\ pc = "raised"
    /\ pc' = "l105"
    /\ bus_capacities' = << >>
    /\ num_buses' = 0
    /\ initial_charge_levels' = << >>
    /\ charging_needs' = << >>
    /\ charging_schedule' = << >>
    /\ hour' = 0
    /\ cls' = 0
    /\ pos' = 0
    /\ chargers_allocated' = 0
    /\ sorted_indices' = << >>
    /\ exception' = ""
    /\ total_charge_required' = 0
    /\ charge_delivered' = 0
    /\ total_cost' = [num |-> 0, den |-> 1]
    /\ average_cost_per_kw' = [kind |-> "unset"]
    /\ warning' = FALSE
    /\ needs_at_hour_start' = << >>
    /\ needs_at_class_start' = << >>
    /\ delivered_by' = << >>

\* lines 13-16
AddBuses ==
    /\ Len(bus_configurations) < MaxGroups
    /\ \E group \in BusInputs :
          bus_configurations' = Append(bus_configurations, group)
    /\ Rerun
    /\ UNCHANGED <<charger_configurations, charging_window, charging_rates>>

\* lines 19-24
RemoveBuses ==
    /\ \E index \in 1..Len(bus_configurations) :
          bus_configurations' = RemoveAt(bus_configurations, index)
    /\ Rerun
    /\ UNCHANGED <<charger_configurations, charging_window, charging_rates>>

\* lines 33-36
AddCharger ==
    /\ Len(charger_configurations) < MaxGroups
    /\ \E group \in ChargerWidgetInputs :
          charger_configurations' = Append(charger_configurations, group)
    /\ Rerun
    /\ UNCHANGED <<bus_configurations, charging_window, charging_rates>>

\* lines 39-44
RemoveCharger ==
    /\ \E index \in 1..Len(charger_configurations) :
          charger_configurations' = RemoveAt(charger_configurations, index)
    /\ Rerun
    /\ UNCHANGED <<bus_configurations, charging_window, charging_rates>>

\* line 49: the window slider; line 50 then shows one rate slider per hour,
\* a new one at its default.
SetWindow ==
    /\ \E window \in 1..MaxHours :
          /\ window # charging_window
          /\ charging_window' = window
          /\ charging_rates' =
                [h \in 1..window |->
                    IF h <= Len(charging_rates) THEN charging_rates[h] ELSE DefaultRate]
    /\ Rerun
    /\ UNCHANGED <<bus_configurations, charger_configurations>>

\* line 50: one of the rate sliders
SetRate ==
    /\ \E h \in 1..Len(charging_rates) : \E rate \in RateInputs :
          /\ rate # charging_rates[h]
          /\ charging_rates' = [charging_rates EXCEPT ![h] = rate]
    /\ Rerun
    /\ UNCHANGED <<bus_configurations, charger_configurations, charging_window>>

\* lines 105-108
BuildFleet ==
    /\ pc = "l105"
    /\ bus_capacities' = BusCapacities(bus_configurations)
    /\ num_buses' = NumBuses(bus_configurations)
    /\ pc' = "l111"
    /\ UNCHANGED <<sessionVars, reportVars, loopVars, historyVars,
                   initial_charge_levels, charging_needs, charging_schedule,
                   exception>>

\* lines 111-125, up to the call of calculate_charging_schedule.  Every
\* call of get_initial_charge_levels samples afresh here; st.cache, which
\* returns an earlier sample for arguments seen before, only removes
\* behaviours.
PrepareCall ==
    /\ pc = "l111"
    /\ IF num_buses > 0
       THEN IF Broadcastable(num_buses, Len(bus_capacities))
            THEN /\ \E percentages \in [1..num_buses -> PercentInputs] :
                       initial_charge_levels' =
                           get_initial_charge_levels(percentages, bus_capacities)
                 /\ pc' = "enter"
                 /\ UNCHANGED exception
            ELSE /\ Raise("ValueError")
                 /\ UNCHANGED initial_charge_levels
       ELSE /\ pc' = "l143"
            /\ UNCHANGED <<initial_charge_levels, exception>>
    /\ UNCHANGED <<sessionVars, reportVars, loopVars, historyVars,
                   bus_capacities, num_buses, charging_needs, charging_schedule>>

\* lines 143-157.  With no bus configured the branch of line 111 was not
\* taken and initial_charge_levels is not bound.
Report ==
    /\ pc \in {"returned", "l143"}
    /\ IF pc = "l143"
       THEN /\ Raise("NameError: initial_charge_levels")
            /\ UNCHANGED reportVars
       ELSE /\ total_charge_required' =
                   SumSeq(bus_capacities) - SumSeq(initial_charge_levels)
            /\ charge_delivered' = SumRows(charging_schedule)
            /\ total_cost' = calculate_total_cost(charging_schedule, charging_rates)
            /\ average_cost_per_kw' =
                   Divide(calculate_total_cost(charging_schedule, charging_rates),
                          SumRows(charging_schedule))
            /\ pc' = "l159"
            /\ UNCHANGED <<exception, warning>>
    /\ UNCHANGED <<sessionVars, argVars, loopVars, historyVars,
                   charging_needs, charging_schedule>>

\* lines 159-161.  num_chargers and charger_capacity are bound only inside
\* calculate_charging_schedule (lines 68-69) and as a parameter of
\* prepare_charger_allocation_data (line 82); the module has no global of
\* either name, so evaluating line 159 raises NameError and line 161 is
\* never reached.
CheckWindow ==
    /\ pc = "l159"
    /\ Raise("NameError: num_chargers")
    /\ UNCHANGED <<sessionVars, argVars, reportVars, loopVars, historyVars,
                   charging_needs, charging_schedule>>

\* The first run of the script: nothing configured, sliders at their
\* defaults (the window capped by the model's bound).
InitApp ==
    /\ bus_configurations = << >>
    /\ charger_configurations = << >>
    /\ charging_window = Min(DefaultWindow, MaxHours)
    /\ charging_rates = [h \in 1..Min(DefaultWindow, MaxHours) |-> DefaultRate]
    /\ bus_capacities = << >>
    /\ num_buses = 0
    /\ initial_charge_levels = << >>
    /\ pc = "l105"
    /\ FreshRun

NextApp ==
    \/ AddBuses \/ RemoveBuses \/ AddCharger \/ RemoveCharger
    \/ SetWindow \/ SetRate
    \/ BuildFleet \/ PrepareCall
    \/ Enter \/ ForHour \/ ForClass \/ ForIdx \/ Return
    \/ Report \/ CheckWindow

SpecApp == InitApp /\ [][NextApp]_vars

---------------------------------------------------------------------------
(* Vocabulary of the properties.                                           *)

Vehicles == 1..Len(charging_needs)

Classes == 1..Len(charger_configurations)

\* charging_needs and charging_schedule exist: lines 62-63 have run.
Allocating == pc \in {"for_hour", "for_class", "for_idx", "return", "returned"}

\* The history variables describe the hour in progress.
InHour == pc \in {"for_class", "for_idx"}

Returned == pc = "returned"

\* The preconditions of the allocation contract on the function's arguments.
ChargeWithinCapacity ==
    /\ Len(bus_capacities) = Len(initial_charge_levels)
    /\ \A v \in 1..Len(bus_capacities) :
          0 <= initial_charge_levels[v] /\ initial_charge_levels[v] <= bus_capacities[v]

PositiveThroughput ==
    /\ \A c \in Classes : charger_configurations[c][2] > 0
    /\ \A h \in 1..Len(charging_rates) : charging_rates[h] > 0

ValidConfiguration ==
    /\ ChargeWithinCapacity
    /\ PositiveThroughput
    /\ \A v \in 1..Len(bus_capacities) : bus_capacities[v] > 0
    /\ \A c \in Classes : charger_configurations[c][1] >= 1
    /\ Len(charging_rates) >= 1
    /\ charging_window = Len(charging_rates)

Deficit(v) == bus_capacities[v] - initial_charge_levels[v]

\* Energy delivered to all vehicles in hour h (1-based).
HourTotal(h) ==
    SumSeq([v \in 1..Len(charging_schedule) |-> charging_schedule[v][h]])

\* What the chargers can deliver in hour h: count x unitCapacity x rate.
Supply(h) ==
    SumSeq([c \in Classes |->
              charger_configurations[c][1]
                * Throughput(charger_configurations[c][2], charging_rates[h])])

ServedBy(c) == {v \in Vehicles : delivered_by[c][v] > 0}

ClassTotal(c) == SumSeq(delivered_by[c])

FromAllClasses(v) == SumSeq([c \in Classes |-> delivered_by[c][v]])

\* Class c has offered its slots to every vehicle of this hour's order.
ClassDone(c) ==
    /\ InHour
    /\ \/ c < cls
       \/ c = cls /\ pc = "for_idx" /\ pos > Len(sorted_indices)

PosOf(v) == CHOOSE i \in 1..Len(sorted_indices) : sorted_indices[i] = v

\* The vehicles class c must serve: of the vehicles with a positive deficit
\* when its turn began, the first count in this hour's order.
Needy(c) == {v \in Vehicles : needs_at_class_start[c][v] > 0}

FirstNeedy(c) ==
    {v \in Needy(c) :
        Cardinality({w \in Needy(c) : PosOf(w) < PosOf(v)})
            < charger_configurations[c][1]}

ScenarioA ==
    /\ bus_capacities = <<10000, 10000, 10000>>
    /\ initial_charge_levels = <<0, 5000, 9000>>
    /\ charger_configurations = << <<1, 6000>> >>
    /\ charging_rates = <<100>>

---------------------------------------------------------------------------
(* C1  No over-delivery: for arguments with 0 <= initial_charge <=         *)
(* capacity, positive unit capacities and positive rates, after every      *)
(* commit every remaining deficit is >= 0, every matrix entry is >= 0 and  *)
(* each vehicle's row sums to at most capacity - initial_charge.           *)
C1_NoOverDelivery ==
    (ChargeWithinCapacity /\ PositiveThroughput /\ Allocating) =>
        \A v \in Vehicles :
            /\ charging_needs[v] >= 0
            /\ \A h \in 1..charging_window : charging_schedule[v][h] >= 0
            /\ SumSeq(charging_schedule[v]) <= Deficit(v)

\* A vehicle whose deficit, smaller than the charger's throughput, was
\* delivered in full, next to one that is still short at the end.
C1_Witness ==
    /\ Returned
    /\ \E v, w \in Vehicles :
          /\ Deficit(v) > 0
          /\ SumSeq(charging_schedule[v]) = Deficit(v)
          /\ \E h \in 1..charging_window :
                /\ charging_schedule[v][h] > 0
                /\ \A c \in Classes : charging_schedule[v][h] <
                      Throughput(charger_configurations[c][2], charging_rates[h])
          /\ charging_needs[w] > 0

(* C2  No over-supply: in every hour the energy delivered to all vehicles  *)
(* is at most the sum over the classes of count x unitCapacity x           *)
(* rateCurve[h], and each class by itself stays within its own count x     *)
(* unitCapacity x rateCurve[h]: nothing unused earlier is added to it.     *)
C2_NoOverSupply ==
    /\ Allocating =>
          \A h \in 1..charging_window : HourTotal(h) <= Supply(h)
    /\ InHour =>
          \A c \in Classes :
              ClassTotal(c) <= charger_configurations[c][1]
                  * Throughput(charger_configurations[c][2], charging_rates[hour + 1])

\* Hour 0 leaves capacity unused, hour 1 uses all of its own and vehicles
\* are still short at the end.
C2_Witness ==
    /\ Returned
    /\ charging_window = 2
    /\ HourTotal(1) < Supply(1)
    /\ HourTotal(2) = Supply(2)
    /\ HourTotal(2) > 0
    /\ \E v \in Vehicles : charging_needs[v] > 0

(* C3  Per-class slot cap: in every hour each class delivers non-zero      *)
(* energy to at most its own count of vehicles, whatever the other classes *)
(* did; the slots a class has used are exactly the vehicles it delivered   *)
(* energy to, so a vehicle it reaches with a deficit <= 0 is skipped and   *)
(* takes no slot.                                                          *)
C3_SlotCap ==
    (ChargeWithinCapacity /\ PositiveThroughput /\ InHour) =>
        /\ \A c \in Classes :
              /\ Cardinality(ServedBy(c)) <= charger_configurations[c][1]
              /\ c <= Len(needs_at_class_start) =>
                    \A v \in Vehicles :
                        needs_at_class_start[c][v] <= 0 => delivered_by[c][v] = 0
        /\ pc = "for_idx" => chargers_allocated = Cardinality(ServedBy(cls))

\* The second class of an hour has passed a vehicle the first class filled
\* and has used only some of its slots, all of them on other vehicles.
C3_Witness ==
    /\ pc = "for_idx"
    /\ cls = 2
    /\ pos > Len(sorted_indices)
    /\ chargers_allocated >= 1
    /\ chargers_allocated < charger_configurations[cls][1]
    /\ \E v \in Vehicles :
          /\ delivered_by[1][v] > 0
          /\ needs_at_class_start[2][v] = 0
          /\ delivered_by[2][v] = 0

CommitsBooked ==
    \A v \in Vehicles :
        /\ charging_schedule[v][hour + 1] = FromAllClasses(v)
        /\ charging_needs[v] = needs_at_hour_start[v] - FromAllClasses(v)

\* A class that has finished its turn served exactly the first
\* min(count, needy) needy vehicles, each with min(deficit, throughput).
GreedyFill(c) ==
    /\ ServedBy(c) = FirstNeedy(c)
    /\ Cardinality(ServedBy(c))
          = Min(charger_configurations[c][1], Cardinality(Needy(c)))
    /\ \A v \in FirstNeedy(c) :
          delivered_by[c][v] =
              Min(needs_at_class_start[c][v],
                  Throughput(charger_configurations[c][2], charging_rates[hour + 1]))

(* C5 as amended  Exact greedy fill: in every hour, each class in          *)
(* configuration order serves exactly min(count, number of vehicles with a *)
(* deficit > 0 when its turn begins) vehicles, the first such in the       *)
(* hour's order, each receiving min(its deficit then, unitCapacity x       *)
(* rateCurve[h]), added to matrix[v][h] and subtracted from its deficit; a *)
(* slot is left idle only when every vehicle that had a positive deficit   *)
(* when the turn began has been served by the class (a vehicle takes one   *)
(* slot of a class per hour at most, and may still be short afterwards).   *)
C5_GreedyFill ==
    (ValidConfiguration /\ InHour) =>
        /\ CommitsBooked
        /\ \A c \in Classes : ClassDone(c) =>
              /\ GreedyFill(c)
              /\ Cardinality(ServedBy(c)) < charger_configurations[c][1]
                    => Needy(c) \subseteq ServedBy(c)

\* A class with more vehicles in need than slots has finished its turn, one
\* of the vehicles it served capped by its deficit, another by the
\* throughput.
C5_Witness ==
    /\ ValidConfiguration
    /\ pc = "for_idx"
    /\ pos > Len(sorted_indices)
    /\ Cardinality(Needy(cls)) > charger_configurations[cls][1]
    /\ \E v, w \in ServedBy(cls) :
          /\ delivered_by[cls][v] = needs_at_class_start[cls][v]
          /\ delivered_by[cls][w] < needs_at_class_start[cls][w]

(* C5 as claimed: the same, but a slot is left idle only when no vehicle   *)
(* with a positive deficit remains.                                        *)
C5_IdleOnlyWhenNoDeficit ==
    (ValidConfiguration /\ InHour) =>
        /\ CommitsBooked
        /\ \A c \in Classes : ClassDone(c) =>
              /\ GreedyFill(c)
              /\ Cardinality(ServedBy(c)) < charger_configurations[c][1]
                    => \A v \in Vehicles :
                          needs_at_class_start[c][v] - delivered_by[c][v] <= 0

\* Demand ceilings a caller may configure: 0 and 20 kW.
DemandCeilings == {0, 2000}

(* C6  Demand ceiling: whatever demand ceiling is configured, the energy   *)
(* delivered to all vehicles in any hour is at most that ceiling; with     *)
(* deficits [100, 50, 10], one slot of 60 and a ceiling of 20, vehicle 0   *)
(* receives 20.                                                            *)
C6_DemandCeiling ==
    \A ceiling \in DemandCeilings :
        Returned =>
            /\ \A h \in 1..charging_window : HourTotal(h) <= ceiling
            /\ (ScenarioA /\ ceiling = 2000) => charging_schedule[1][1] = 2000

(* C8  Fail-fast validation: when the configuration violates a             *)
(* precondition, the engine raises InvalidConfiguration before any         *)
(* allocation work: no deficit vector or matrix is built, nothing is       *)
(* returned.                                                               *)
C8_FailFast ==
    ~ValidConfiguration =>
        \/ pc = "enter"
        \/ pc = "raised" /\ exception = "InvalidConfiguration"

RECURSIVE ExpandFleet(_)
\* One entry per vehicle: each group's capacity repeated count times, groups
\* in order.
ExpandFleet(configs) ==
    IF configs = << >> THEN << >>
    ELSE [i \in 1..Head(configs)[1] |-> Head(configs)[2]] \o ExpandFleet(Tail(configs))

(* C7  Fleet expansion: the capacities list built from the configured      *)
(* <<count, capacity>> groups has one entry per vehicle, each its group's  *)
(* capacity, in group order; its length is num_buses, and so are the       *)
(* lengths of the initial-charge vector and of the matrix's rows.          *)
C7_FleetExpansion ==
    /\ pc \in {"l111", "enter"} \cup {"for_hour", "for_class", "for_idx", "return", "returned"} =>
          /\ bus_capacities = ExpandFleet(bus_configurations)
          /\ Len(bus_capacities) = num_buses
    /\ pc \in {"for_hour", "for_class", "for_idx", "return", "returned"} =>
          /\ Len(initial_charge_levels) = num_buses
          /\ Len(charging_schedule) = num_buses

(* C9  Guarded average cost: when the total delivered energy is 0 the      *)
(* average cost per unit is reported as undefined and no division is made; *)
(* when it is > 0 the average is totalCost / sum(matrix).                  *)
C9_GuardedAverage ==
    pc = "l159" =>
        IF charge_delivered = 0
        THEN average_cost_per_kw.kind = "undefined"
        ELSE /\ average_cost_per_kw.kind = "value"
             /\ average_cost_per_kw.num = total_cost.num
             /\ average_cost_per_kw.den = total_cost.den * charge_delivered

(* C10  Infeasibility report: with a single charger pool, once the engine  *)
(* has returned and the caller's check of lines 159-161 is over, the       *)
(* "Charging window insufficient" warning is shown exactly when some       *)
(* vehicle's deficit is still > 0.                                         *)
C10_InsufficientWindowWarned ==
    (/\ pc = "raised"
     /\ exception = "NameError: num_chargers"
     /\ Len(charger_configurations) = 1) =>
        (warning <=> \E v \in Vehicles : charging_needs[v] > 0)

=============================================================================
